---- MODULE Spec2Model ----
(***************************************************************************)
(* Connection lifecycle of the FocusWave WhatsApp bridge.                  *)
(*                                                                         *)
(* Two variants of the bridge are modelled over one environment (socket    *)
(* objects, pending timers, suspended calls, the credential folder):       *)
(*   Spec   src/index.js          status string, /disconnect, /restart     *)
(*   Spec4  "server (4).js"       retry budget, clearSession, /reset       *)
(*          (src/unnamed/part_002, lines 100-344)                          *)
(*   SpecR  Spec, with the origin of every start recorded on its socket    *)
(* A step of the model is one run of JavaScript between two awaits, so the *)
(* states of the model are exactly the instants an HTTP reader can see.    *)
(*                                                                         *)
(* The Baileys socket is the environment. What the model takes from it:    *)
(* a socket emits connection.update {qr} only while it is not registered,  *)
(* {connection:'open'} once, {connection:'close'} last; sock.end() and a   *)
(* resolving sock.logout() on a socket that is still live emit its close   *)
(* to the registered handler before they return (statusCode undefined,     *)
(* respectively loggedOut); sock.logout() may reject.                      *)
(***************************************************************************)
EXTENDS Integers, FiniteSets, Sequences, Bags, TLC

\* ------------------------------------------------------------- bounds
\* socket objects that exist at once (a closed one nothing refers to is gone)
MaxSockets == 2
\* callbacks outstanding at once: pending setTimeout callbacks, connect calls
\* suspended at an await, qr handlers suspended in QRCode.toDataURL and
\* /disconnect handlers suspended in sock.logout()
MaxPending == 2

\* ------------------------------------------------------------- values
NULL == "null"
\* pairing codes carried by the qr field of connection.update
Codes == {"ABC", "XYZ"}
\* lastDisconnect.error.output.statusCode by its DisconnectReason name;
\* "undefined" is a close without an error, "other" any unlisted code
StatusCodes ==
    {"loggedOut", "badSession", "connectionClosed", "connectionLost",
     "timedOut", "restartRequired", "undefined", "other"}
\* the codes index.js tells apart: loggedOut, and every other one (two of
\* the others are kept: an unrecoverable one and a transient one)
IndexCodes == {"loggedOut", "badSession", "connectionLost"}
\* QRCode.toDataURL(qr): the data URL of the rendered image
toDataURL(qr) == CASE qr = "ABC" -> "data:ABC" [] qr = "XYZ" -> "data:XYZ"
\* a null userInfo / connectionInfo
NoInfo == [name |-> NULL, id |-> NULL]

VARIABLES
    \* ---- program state of src/index.js (lines 29-31)
    qrCode, connectionStatus, userInfo,
    \* ---- program state of server (4).js (part_002 lines 124-130)
    currentQR, isConnected, isInitializing, initError, connectionInfo,
    reconnectAttempts,
    \* ---- program state of the whatsapp-web.js server (server.js 19-24)
    clientInfo,
    client,      \* the Client object: how far its session has got
    \* ---- environment
    listening,   \* the process has booted: requests are served
    sockets,     \* bag of socket objects; cur marks the one `sock` refers to
    timers,      \* bag of pending setTimeout callbacks, by kind
    starting,    \* bag of connect calls suspended at an await
    rendering,   \* codes of the qr handlers suspended in QRCode.toDataURL
    authState,   \* the credential folder: "none" or "paired"
    fetching,    \* /chats handlers suspended in groupFetchAllParticipating
    \* ---- history
    track,       \* whether the origin of a start is recorded (SpecR)
    newest,      \* the pairing code emitted last, and whether it was published
    last,        \* what the last handler did
    streak,      \* Transient closures since the last opened / pairing-ready
    run          \* ... since the last of those, reset or forced-fresh start

progVars == <<qrCode, connectionStatus, userInfo>>
prog4Vars ==
    <<currentQR, isConnected, isInitializing, initError, connectionInfo,
      reconnectAttempts>>
envVars == <<listening, sockets, timers, starting, rendering, authState>>
histVars == <<track, newest, last, streak, run>>
wwebVars == <<clientInfo, client>>
vars == <<progVars, prog4Vars, wwebVars, envVars, fetching, histVars>>

\* ------------------------------------------------------------- sockets
\* A socket object: its phase, whether its credentials hold a registered
\* identity (sock.user), whether the module variable `sock` refers to it,
\* and lo: for each /disconnect suspended in its logout(), whether the
\* socket was live when that request called it.
One(x) == SetToBag({x})
Live(s) == s.phase \in {"connecting", "open"}
Restrict(b, S) == [x \in S |-> b[x]]
LiveBag(ss) == Restrict(ss, {s \in BagToSet(ss) : Live(s)})
NumLive == BagCardinality(LiveBag(sockets))
\* a closed socket that neither sock nor a suspended request refers to is gone
Garbage(ss) ==
    {s \in BagToSet(ss) : s.phase = "closed" /\ ~s.cur /\ s.lo = {}}
Collect(ss) == Restrict(ss, BagToSet(ss) \ Garbage(ss))
Upd(ss, s, t) == Collect((ss (-) One(s)) (+) One(t))
\* the module variable sock (index.js 28, part_002 125): a handle or null
NoSock ==
    [phase |-> NULL, me |-> FALSE, byRestart |-> FALSE, cur |-> TRUE, lo |-> {}]
CurSet(ss) == {s \in BagToSet(ss) : s.cur}
SockOf(ss) == IF CurSet(ss) = {} THEN NoSock ELSE CHOOSE s \in CurSet(ss) : TRUE
sock == SockOf(sockets)
\* sock = makeWASocket(...): the new object becomes the one sock refers to
makeWASocket(ss, me, byRestart) ==
    LET old == SockOf(ss)
        ss1 == IF old = NoSock THEN ss
               ELSE (ss (-) One(old)) (+) One([old EXCEPT !.cur = FALSE])
    IN  Collect(ss1) (+)
        One([phase |-> "connecting", me |-> me, byRestart |-> byRestart,
             cur |-> TRUE, lo |-> {}])
\* a closure after which sock no longer refers to the socket
Ended_NullsSock(ss, s) ==
    Upd(ss, s, [s EXCEPT !.phase = "closed", !.cur = FALSE])

\* the socket ends: sock.end(), or the end of a resolved logout()
Ended(ss, s) == Upd(ss, s, [s EXCEPT !.phase = "closed"])

Pending(t, st, rn, ss, f) ==
    BagCardinality(t) + BagCardinality(st) + Cardinality(rn) + f
    + BagCardinality(Restrict(ss, {s \in BagToSet(ss) : s.lo # {}}))
\* the bounds, on the state a step leads to
Bounded ==
    /\ Pending(timers', starting', rendering', sockets', fetching') <= MaxPending
    /\ BagCardinality(sockets') <= MaxSockets

NoOp ==
    [op |-> "none", code |-> NULL, ok |-> TRUE, live |-> FALSE, sched |-> 0,
     kind |-> NULL, purged |-> FALSE, n |-> 0, m |-> 0, ms |-> 0,
     before |-> 0, after |-> NULL,
     \* of a response: its HTTP status and the fields of its body
     http |-> NULL, status |-> NULL, connected |-> FALSE, hasQR |-> FALSE,
     user |-> NoInfo, qr |-> NULL, called |-> FALSE,
     \* of an event: whether sock referred to the socket that emitted it
     cur |-> FALSE]
Did(op, code, ok, live, sched) ==
    [NoOp EXCEPT !.op = op, !.code = code, !.ok = ok, !.live = live,
                 !.sched = sched]

\* sock.user?.name || 'Unknown', sock.user?.id?.split(':')[0] || 'Unknown'
\* (index.js 90-93, part_002 229-233)
UserOf(s) ==
    IF s # NoSock /\ s.me
    THEN [name |-> "Alice", id |-> "1"]
    ELSE [name |-> "Unknown", id |-> "Unknown"]

\* ============================================================ index.js
\* What a handler of index.js writes, as one record, so that a handler that
\* runs another (sock.end() emitting to the close handler) composes.
Prog ==
    [connectionStatus |-> connectionStatus, qrCode |-> qrCode,
     userInfo |-> userInfo, authState |-> authState, timers |-> timers,
     sched |-> 0]

Store(p) ==
    /\ connectionStatus' = p.connectionStatus
    /\ qrCode' = p.qrCode
    /\ userInfo' = p.userInfo
    /\ authState' = p.authState
    /\ timers' = p.timers

\* setTimeout(connectWhatsApp, ms): no handle is kept, none is ever cleared
setTimeout(p, kind) ==
    [p EXCEPT !.timers = @ (+) One(kind), !.sched = @ + 1]

\* clearAuthState (index.js 131-140)
clearAuthState(p) == [p EXCEPT !.authState = "none"]

\* a close branch that leaves connectionStatus as it was
closeBranch_KeepsStatus(p, statusCode) ==
    LET p1 == [p EXCEPT !.qrCode = NULL, !.userInfo = NoInfo]
        p2 == IF statusCode = "loggedOut" THEN clearAuthState(p1) ELSE p1
    IN  IF statusCode # "loggedOut" THEN setTimeout(p2, "close") ELSE p2

\* connection.update, connection === 'close' (index.js 98-118)
closeBranch(p, statusCode) ==
    LET shouldReconnect == statusCode # "loggedOut"
        p1 == [p EXCEPT !.connectionStatus = "disconnected",
                        !.qrCode = NULL, !.userInfo = NoInfo]
        p2 == IF statusCode = "loggedOut" THEN clearAuthState(p1) ELSE p1
    IN  IF shouldReconnect THEN setTimeout(p2, "close") ELSE p2

\* connection.update, connection === 'open' (index.js 86-95)
openBranch(p, s) ==
    [p EXCEPT !.connectionStatus = "connected", !.qrCode = NULL,
              !.userInfo = UserOf(s)]

\* connectWhatsApp up to its first await (index.js 34-49)
connectPrefix(p) ==
    [p EXCEPT !.connectionStatus = "connecting", !.qrCode = NULL]

\* a catch that reports the error and schedules nothing
connectCatch_NoRetry(p) == [p EXCEPT !.connectionStatus = "error"]

\* connectWhatsApp's catch (index.js 124-128)
connectCatch(p) ==
    setTimeout([p EXCEPT !.connectionStatus = "error"], "catch")

\* POST /disconnect after logout() resolved (index.js 224-227)
disconnectTail(p) ==
    [p EXCEPT !.connectionStatus = "disconnected", !.qrCode = NULL,
              !.userInfo = NoInfo]

\* a /restart that schedules nothing
restartTail_NoTimer(p) ==
    [p EXCEPT !.connectionStatus = "disconnected", !.qrCode = NULL,
              !.userInfo = NoInfo]

\* POST /restart after sock.end() (index.js 239-243)
restartTail(p) ==
    setTimeout([p EXCEPT !.connectionStatus = "disconnected", !.qrCode = NULL,
                         !.userInfo = NoInfo], "restart")

Suspended(byRestart) ==
    [stage |-> "load", me |-> FALSE, byRestart |-> byRestart, forceNew |-> FALSE]

\* app.listen's callback (index.js 247-257): the one boot-time start
Boot ==
    /\ ~listening
    /\ listening' = TRUE
    /\ Store(connectPrefix(Prog))
    /\ starting' = starting (+) One(Suspended(FALSE))
    /\ last' = NoOp
    /\ UNCHANGED <<sockets, rendering, prog4Vars, track, wwebVars, fetching, newest, streak, run>>
    /\ Bounded

\* a setTimeout callback runs connectWhatsApp (index.js 116, 127, 242)
TimerFire(kind) ==
    /\ BagIn(kind, timers)
    /\ Store(connectPrefix([Prog EXCEPT !.timers = @ (-) One(kind)]))
    /\ starting' = starting (+) One(Suspended(track /\ kind = "restart"))
    /\ last' = Did("start", kind, TRUE, FALSE, 0)
    /\ UNCHANGED <<sockets, rendering, listening, prog4Vars, track, wwebVars, fetching, newest, streak, run>>

\* useMultiFileAuthState resolves with the stored credentials (index.js 49)
StartLoaded(st) ==
    /\ BagIn(st, starting) /\ st.stage = "load"
    /\ starting' = (starting (-) One(st)) (+)
          One([st EXCEPT !.stage = "fetch", !.me = authState = "paired"])
    /\ last' = NoOp
    /\ UNCHANGED <<progVars, prog4Vars, listening, sockets, timers, rendering,
                   authState, track, wwebVars, fetching, newest, streak, run>>

\* fetchLatestBaileysVersion resolves; sock = makeWASocket(...); the
\* handlers are registered (index.js 52-122)
StartFinish(st) ==
    /\ BagIn(st, starting) /\ st.stage = "fetch"
    /\ starting' = starting (-) One(st)
    /\ sockets' = makeWASocket(sockets, st.me, st.byRestart)
    /\ last' = NoOp
    /\ UNCHANGED <<progVars, prog4Vars, listening, timers, rendering, authState,
                   track, wwebVars, fetching, newest, streak, run>>
    /\ Bounded

\* an await of the try block throws (index.js 124-128)
StartFail(st) ==
    /\ BagIn(st, starting)
    /\ starting' = starting (-) One(st)
    /\ LET p == connectCatch(Prog)
       IN  Store(p) /\ last' = Did("startFail", NULL, FALSE, FALSE, p.sched)
    /\ UNCHANGED <<sockets, rendering, listening, prog4Vars, track, wwebVars, fetching, newest, streak, run>>

\* connection.update with qr, up to the await (index.js 75-79)
OnQr(s, qr) ==
    /\ s.phase = "connecting" /\ ~s.me
    /\ qr \notin rendering
    /\ connectionStatus' = "waiting_for_scan"
    /\ rendering' = rendering \cup {qr}
    /\ newest' = IF track THEN [qr |-> qr, shown |-> FALSE] ELSE newest
    /\ last' = NoOp
    /\ UNCHANGED <<qrCode, userInfo, prog4Vars, listening, sockets, timers,
                   starting, authState, track, wwebVars, fetching, streak, run>>
    /\ Bounded
Qr == \E s \in BagToSet(sockets), qr \in Codes : OnQr(s, qr)

\* QRCode.toDataURL resolves (index.js 79)
RenderDone(qr) ==
    /\ qr \in rendering
    /\ rendering' = rendering \ {qr}
    /\ qrCode' = toDataURL(qr)
    /\ newest' = IF track /\ newest.qr = qr
                 THEN [newest EXCEPT !.shown = TRUE] ELSE newest
    /\ last' = [NoOp EXCEPT !.op = "render", !.code = qr, !.after = last.op]
    /\ UNCHANGED <<connectionStatus, userInfo, prog4Vars, listening, sockets,
                   timers, starting, authState, track, wwebVars, fetching, streak, run>>

\* a rejected render that surfaces as the 'error' status
RenderFail_SetsError(qr) ==
    /\ qr \in rendering
    /\ rendering' = rendering \ {qr}
    /\ connectionStatus' = "error"
    /\ last' = [NoOp EXCEPT !.op = "renderFail", !.code = qr, !.ok = FALSE]
    /\ UNCHANGED <<qrCode, userInfo, prog4Vars, listening, sockets, timers,
                   starting, authState, track, wwebVars, fetching, newest,
                   streak, run>>

\* QRCode.toDataURL rejects: logged, swallowed (index.js 80-82)
RenderFail(qr) ==
    /\ qr \in rendering
    /\ rendering' = rendering \ {qr}
    /\ last' = [NoOp EXCEPT !.op = "renderFail", !.code = qr, !.ok = FALSE]
    /\ UNCHANGED <<progVars, prog4Vars, listening, sockets, timers, starting,
                   authState, track, wwebVars, fetching, newest, streak, run>>

\* connection.update with connection 'open' (index.js 86-95)
OnOpen(s) ==
    /\ s.phase = "connecting" /\ s.me
    /\ sockets' = Upd(sockets, s, [s EXCEPT !.phase = "open"])
    /\ Store(openBranch(Prog, sock))
    /\ last' = [Did("open", NULL, TRUE, FALSE, 0) EXCEPT !.cur = s.cur,
                                                        !.user = UserOf(s)]
    /\ UNCHANGED <<prog4Vars, listening, starting, rendering, track, wwebVars, fetching, newest, streak, run>>
Open == \E s \in BagToSet(sockets) : OnOpen(s)

\* connection.update with connection 'close' (index.js 98-118)
OnClose(s, statusCode) ==
    /\ Live(s)
    /\ sockets' = Ended(sockets, s)
    /\ LET p == closeBranch(Prog, statusCode)
       IN  /\ Store(p)
           /\ last' = Did("close", statusCode, TRUE, FALSE, p.sched)
    /\ UNCHANGED <<prog4Vars, listening, starting, rendering, track, wwebVars, fetching, newest, streak, run>>
    /\ Bounded
Close == \E s \in BagToSet(sockets), c \in IndexCodes : OnClose(s, c)

\* a creds.update handler that also drops the published pairing code
OnCredsUpdate_DropsQr(s) ==
    /\ Live(s)
    /\ authState' = "paired"
    /\ sockets' = Upd(sockets, s, [s EXCEPT !.me = TRUE])
    /\ qrCode' = NULL
    /\ last' = [NoOp EXCEPT !.op = "creds"]
    /\ UNCHANGED <<connectionStatus, userInfo, prog4Vars, listening, timers,
                   starting, rendering, track, wwebVars, fetching, newest,
                   streak, run>>

\* creds.update -> saveCreds (index.js 121-122)
OnCredsUpdate(s) ==
    /\ Live(s)
    /\ authState' = "paired"
    /\ sockets' = Upd(sockets, s, [s EXCEPT !.me = TRUE])
    /\ last' = [NoOp EXCEPT !.op = "creds"]
    /\ UNCHANGED <<progVars, prog4Vars, listening, timers, starting, rendering,
                   track, wwebVars, fetching, newest, streak, run>>
CredsUpdate == \E s \in BagToSet(sockets) : OnCredsUpdate(s)

\* POST /disconnect with sock === null (index.js 217-220)
DisconnectNoSock ==
    /\ listening /\ sock = NoSock
    /\ last' = Did("disconnect", NULL, TRUE, FALSE, 0)
    /\ UNCHANGED <<progVars, prog4Vars, envVars, track, wwebVars, fetching, newest, streak, run>>

\* POST /disconnect up to await sock.logout() (index.js 217-223)
DisconnectBegin ==
    /\ listening /\ sock # NoSock
    /\ Live(sock) \notin sock.lo
    /\ sockets' = Upd(sockets, sock, [sock EXCEPT !.lo = @ \cup {Live(sock)}])
    /\ last' = NoOp
    /\ UNCHANGED <<progVars, prog4Vars, listening, timers, starting, rendering,
                   authState, track, wwebVars, fetching, newest, streak, run>>
    /\ Bounded

\* sock.logout() resolves; then index.js 224-227
OnLogoutOk(s, wasLive) ==
    /\ wasLive \in s.lo
    /\ sockets' = Upd(sockets, s, [s EXCEPT !.lo = @ \ {wasLive},
                                            !.phase = IF Live(s) THEN "closed" ELSE @])
    /\ LET p0 == IF Live(s) THEN closeBranch(Prog, "loggedOut") ELSE Prog
           p == disconnectTail(p0)
       IN  /\ Store(p)
           /\ last' = Did("disconnect", NULL, TRUE, wasLive, p.sched)
    /\ UNCHANGED <<prog4Vars, listening, starting, rendering, track, wwebVars, fetching, newest, streak, run>>
DisconnectOk == \E s \in BagToSet(sockets), l \in BOOLEAN : OnLogoutOk(s, l)

\* sock.logout() rejects: res.status(500) (index.js 228-230)
OnLogoutThrow(s, wasLive) ==
    /\ wasLive \in s.lo
    /\ sockets' = Upd(sockets, s, [s EXCEPT !.lo = @ \ {wasLive}])
    /\ last' = [Did("disconnect", NULL, FALSE, wasLive, 0) EXCEPT !.http = "500"]
    /\ UNCHANGED <<progVars, prog4Vars, listening, timers, starting, rendering,
                   authState, track, wwebVars, fetching, newest, streak, run>>
DisconnectThrow == \E s \in BagToSet(sockets), l \in BOOLEAN : OnLogoutThrow(s, l)

\* POST /restart (index.js 234-244)
Restart ==
    /\ listening
    /\ LET ends == sock # NoSock /\ Live(sock)
           p0 == IF ends THEN closeBranch(Prog, "undefined") ELSE Prog
           p == restartTail(p0)
       IN  /\ sockets' = IF ends THEN Ended(sockets, sock) ELSE sockets
           /\ Store(p)
           /\ last' = Did("restart", NULL, TRUE, ends, p.sched)
    /\ UNCHANGED <<prog4Vars, listening, starting, rendering, track, wwebVars, fetching, newest, streak, run>>
    /\ Bounded

\* ------------------------------------------------ index.js, the reads
Reply(op, http) == [NoOp EXCEPT !.op = op, !.http = http, !.ok = http # "500"]

\* GET /health (index.js 145-151)
GetHealth ==
    /\ listening
    /\ last' = [Reply("health", "200") EXCEPT
                    !.status = "ok",
                    !.connected = connectionStatus = "connected"]
    /\ UNCHANGED <<progVars, prog4Vars, envVars, fetching, track, wwebVars, newest,
                   streak, run>>

\* the body of GET /status (index.js 155-160)
statusBody ==
    [status |-> connectionStatus,
     connected |-> connectionStatus = "connected",
     hasQR |-> qrCode # NULL,
     user |-> userInfo]

\* a read that schedules a start
GetStatus_Starts ==
    /\ listening
    /\ last' = [Reply("status", "200") EXCEPT
                    !.status = statusBody.status,
                    !.connected = statusBody.connected,
                    !.hasQR = statusBody.hasQR,
                    !.user = statusBody.user]
    /\ timers' = timers (+) One("restart")
    /\ UNCHANGED <<progVars, prog4Vars, listening, sockets, starting, rendering,
                   authState, fetching, track, wwebVars, newest, streak, run>>
    /\ Bounded

\* GET /status (index.js 154-161)
GetStatus ==
    /\ listening
    /\ last' = [Reply("status", "200") EXCEPT
                    !.status = statusBody.status,
                    !.connected = statusBody.connected,
                    !.hasQR = statusBody.hasQR,
                    !.user = statusBody.user]
    /\ UNCHANGED <<progVars, prog4Vars, envVars, fetching, track, wwebVars, newest,
                   streak, run>>

\* the response of GET /qr (index.js 165-184)
qrReply ==
    IF connectionStatus = "connected"
    THEN [Reply("qr", "200") EXCEPT !.status = "connected", !.qr = NULL]
    ELSE IF qrCode = NULL
    THEN [Reply("qr", "202") EXCEPT !.status = connectionStatus, !.qr = NULL]
    ELSE [Reply("qr", "200") EXCEPT !.status = "waiting_for_scan", !.qr = qrCode]

\* GET /qr (index.js 164-185)
GetQr ==
    /\ listening
    /\ last' = qrReply
    /\ UNCHANGED <<progVars, prog4Vars, envVars, fetching, track, wwebVars, newest,
                   streak, run>>

\* the guard of GET /chats (index.js 189)
chatsAllowed == connectionStatus = "connected" /\ sock # NoSock

\* GET /chats up to await sock.groupFetchAllParticipating() (index.js 188-196)
GetChats ==
    /\ listening
    /\ IF chatsAllowed
       THEN /\ fetching' = fetching + 1
            /\ last' = [Reply("chats", NULL) EXCEPT !.called = TRUE]
       ELSE /\ fetching' = fetching
            /\ last' = [Reply("chats", "503") EXCEPT !.status = connectionStatus,
                                                     !.ok = FALSE]
    /\ UNCHANGED <<progVars, prog4Vars, envVars, track, wwebVars, newest, streak, run>>
    /\ Bounded

\* groupFetchAllParticipating resolves: res.json (index.js 197-208)
ChatsOk ==
    /\ fetching > 0
    /\ fetching' = fetching - 1
    /\ last' = Reply("chatsDone", "200")
    /\ UNCHANGED <<progVars, prog4Vars, envVars, track, wwebVars, newest, streak, run>>

\* groupFetchAllParticipating rejects: res.status(500) (index.js 209-212)
ChatsThrow ==
    /\ fetching > 0
    /\ fetching' = fetching - 1
    /\ last' = Reply("chatsDone", "500")
    /\ UNCHANGED <<progVars, prog4Vars, envVars, track, wwebVars, newest, streak, run>>

StartKinds ==
    [stage : {"load", "fetch"}, me : BOOLEAN, byRestart : BOOLEAN,
     forceNew : BOOLEAN]
TimerKinds == {"close", "catch", "restart"}

\* ======================================================== server (4).js
\* part_002 line 131
MAX_RECONNECT_ATTEMPTS == 5
\* the codes the close branch retries against the budget (part_002 204-207)
Transient == {"connectionClosed", "connectionLost", "timedOut", "undefined"}

\* What a handler of server (4).js writes, as one record.
Prog4 ==
    [currentQR |-> currentQR, isConnected |-> isConnected,
     isInitializing |-> isInitializing, initError |-> initError,
     connectionInfo |-> connectionInfo, reconnectAttempts |-> reconnectAttempts,
     authState |-> authState, timers |-> timers,
     sched |-> 0, kind |-> NULL, ms |-> 0, purged |-> FALSE]

Store4(p) ==
    /\ currentQR' = p.currentQR
    /\ isConnected' = p.isConnected
    /\ isInitializing' = p.isInitializing
    /\ initError' = p.initError
    /\ connectionInfo' = p.connectionInfo
    /\ reconnectAttempts' = p.reconnectAttempts
    /\ authState' = p.authState
    /\ timers' = p.timers

\* setTimeout(connectToWhatsApp, ms) is kind "plain" (forceNew defaults to
\* false), setTimeout(() => connectToWhatsApp(true), ms) is kind "fresh"
setTimeout4(p, kind, ms) ==
    [p EXCEPT !.timers = @ (+) One(kind), !.sched = @ + 1, !.kind = kind,
              !.ms = ms]

\* the delay of the n-th retry: 3000 * reconnectAttempts (part_002 211)
backoff(n) == 3000 * n

\* clearSession (part_002 134-140)
clearSession(p) == [p EXCEPT !.authState = "none", !.purged = TRUE]

\* connectToWhatsApp(forceNew) up to its await (part_002 142-153)
connectPrefix4(p, forceNew) ==
    LET p1 == [p EXCEPT !.isInitializing = TRUE, !.initError = NULL]
    IN  IF forceNew THEN [clearSession(p1) EXCEPT !.reconnectAttempts = 0] ELSE p1

\* connectToWhatsApp's catch (part_002 242-250)
connectCatch4(p) ==
    setTimeout4(clearSession([p EXCEPT !.initError = "error",
                                       !.isInitializing = FALSE]), "fresh", 5000)

\* the budget test with the bound off by one
closeBranch4_OneMore(p, statusCode) ==
    LET p1 == [p EXCEPT !.isConnected = FALSE, !.currentQR = NULL]
        n == p.reconnectAttempts + 1
    IN  CASE statusCode \in {"loggedOut", "badSession"} ->
                setTimeout4(clearSession(p1), "fresh", 3000)
          [] statusCode \in Transient ->
                IF n <= MAX_RECONNECT_ATTEMPTS + 1
                THEN setTimeout4([p1 EXCEPT !.reconnectAttempts = n], "plain",
                                 backoff(n))
                ELSE setTimeout4([clearSession(p1) EXCEPT !.reconnectAttempts = 0],
                                 "fresh", 5000)
          [] OTHER -> setTimeout4(p1, "plain", 5000)

\* the retry delay computed from the counter before its increment
closeBranch4_StaleDelay(p, statusCode) ==
    LET p1 == [p EXCEPT !.isConnected = FALSE, !.currentQR = NULL]
        n == p.reconnectAttempts + 1
    IN  CASE statusCode \in {"loggedOut", "badSession"} ->
                setTimeout4(clearSession(p1), "fresh", 3000)
          [] statusCode \in Transient ->
                IF n <= MAX_RECONNECT_ATTEMPTS
                THEN setTimeout4([p1 EXCEPT !.reconnectAttempts = n], "plain",
                                 backoff(p.reconnectAttempts))
                ELSE setTimeout4([clearSession(p1) EXCEPT !.reconnectAttempts = 0],
                                 "fresh", 5000)
          [] OTHER -> setTimeout4(p1, "plain", 5000)

\* the exhausted branch without its reset of the counter
closeBranch4_NoReset(p, statusCode) ==
    LET p1 == [p EXCEPT !.isConnected = FALSE, !.currentQR = NULL]
        n == p.reconnectAttempts + 1
    IN  CASE statusCode \in {"loggedOut", "badSession"} ->
                setTimeout4(clearSession(p1), "fresh", 3000)
          [] statusCode \in Transient ->
                IF n <= MAX_RECONNECT_ATTEMPTS
                THEN setTimeout4([p1 EXCEPT !.reconnectAttempts = n], "plain",
                                 backoff(n))
                ELSE setTimeout4([clearSession(p1) EXCEPT !.reconnectAttempts = n],
                                 "fresh", 5000)
          [] OTHER -> setTimeout4(p1, "plain", 5000)

\* connection.update, connection === 'close' (part_002 187-221)
closeBranch4(p, statusCode) ==
    LET p1 == [p EXCEPT !.isConnected = FALSE, !.currentQR = NULL]
        n == p.reconnectAttempts + 1
    IN  CASE statusCode = "loggedOut" ->
                setTimeout4(clearSession(p1), "fresh", 3000)
          [] statusCode = "badSession" ->
                setTimeout4(clearSession(p1), "fresh", 3000)
          [] statusCode \in Transient ->
                IF n <= MAX_RECONNECT_ATTEMPTS
                THEN setTimeout4([p1 EXCEPT !.reconnectAttempts = n], "plain",
                                 backoff(n))
                ELSE setTimeout4([clearSession(p1) EXCEPT !.reconnectAttempts = 0],
                                 "fresh", 5000)
          [] OTHER -> setTimeout4(p1, "plain", 5000)

\* the open branch without the reset of the counter
openBranch4_KeepsCount(p, s) ==
    [p EXCEPT !.isConnected = TRUE, !.isInitializing = FALSE,
              !.currentQR = NULL, !.connectionInfo = UserOf(s)]

\* connection.update, connection === 'open' (part_002 222-234)
openBranch4(p, s) ==
    [p EXCEPT !.isConnected = TRUE, !.isInitializing = FALSE,
              !.currentQR = NULL, !.reconnectAttempts = 0,
              !.connectionInfo = UserOf(s)]

\* POST /disconnect after the logout (part_002 311-314)
disconnectTail4(p) ==
    [clearSession(p) EXCEPT !.isConnected = FALSE, !.currentQR = NULL]

\* POST /reset (part_002 320-328)
resetBody(p) ==
    setTimeout4([clearSession(p) EXCEPT !.isConnected = FALSE, !.currentQR = NULL,
                                        !.reconnectAttempts = 0], "fresh", 1000)

\* the closures counted so far, capped at the budget
Bump(k) == IF k < MAX_RECONNECT_ATTEMPTS THEN k + 1 ELSE MAX_RECONNECT_ATTEMPTS
\* a close of code c, handled as p: the history counters after it
AfterClose(k, c, p) == IF c \in Transient /\ ~p.purged THEN Bump(k) ELSE 0
Did4(op, code, ok, live, p) ==
    [NoOp EXCEPT !.op = op, !.code = code, !.ok = ok, !.live = live,
                 !.sched = p.sched, !.kind = p.kind, !.purged = p.purged,
                 !.n = streak, !.m = run, !.ms = p.ms,
                 !.before = reconnectAttempts]

\* connectToWhatsApp(true) at module load (part_002 253-254)
Boot4 ==
    /\ ~listening
    /\ listening' = TRUE
    /\ LET p == connectPrefix4(Prog4, TRUE)
       IN  Store4(p) /\ last' = NoOp
    /\ starting' = starting (+) One([Suspended(FALSE) EXCEPT !.forceNew = TRUE])
    /\ run' = 0
    /\ UNCHANGED <<sockets, rendering, progVars, track, wwebVars, fetching, newest, streak>>
    /\ Bounded

\* a setTimeout callback runs connectToWhatsApp (part_002 199-220, 249, 326)
TimerFire4(kind) ==
    /\ BagIn(kind, timers)
    /\ LET p == connectPrefix4([Prog4 EXCEPT !.timers = @ (-) One(kind)],
                               kind = "fresh")
       IN  Store4(p) /\ last' = NoOp
    /\ starting' = starting (+)
          One([Suspended(FALSE) EXCEPT !.forceNew = (kind = "fresh")])
    /\ run' = IF kind = "fresh" THEN 0 ELSE run
    /\ UNCHANGED <<sockets, rendering, listening, progVars, track, wwebVars, fetching, newest, streak>>

\* useMultiFileAuthState resolves; sock = makeWASocket(...); the handlers
\* are registered (part_002 153-240)
Start4(st) ==
    /\ BagIn(st, starting) /\ st.stage = "load"
    /\ starting' = starting (-) One(st)
    /\ sockets' = makeWASocket(sockets, authState = "paired", FALSE)
    /\ last' = NoOp
    /\ UNCHANGED <<progVars, prog4Vars, listening, timers, rendering, authState,
                   track, wwebVars, fetching, newest, streak, run>>
    /\ Bounded

\* the try block throws (part_002 242-250)
StartFail4(st) ==
    /\ BagIn(st, starting)
    /\ starting' = starting (-) One(st)
    /\ LET p == connectCatch4(Prog4)
       IN  Store4(p) /\ last' = NoOp
    /\ UNCHANGED <<sockets, rendering, listening, progVars, track, wwebVars, fetching, newest, streak, run>>

\* connection.update with qr, up to the await (part_002 175-180)
OnQr4(s, qr) ==
    /\ s.phase = "connecting" /\ ~s.me
    /\ qr \notin rendering
    /\ isInitializing' = FALSE
    /\ reconnectAttempts' = 0
    /\ rendering' = rendering \cup {qr}
    /\ last' = [NoOp EXCEPT !.op = "qr", !.before = reconnectAttempts]
    /\ streak' = 0 /\ run' = 0
    /\ UNCHANGED <<currentQR, isConnected, initError, connectionInfo, progVars,
                   listening, sockets, timers, starting, authState, track, wwebVars, fetching, newest>>
    /\ Bounded
Qr4 == \E s \in BagToSet(sockets), qr \in Codes : OnQr4(s, qr)

\* QRCode.toDataURL resolves (part_002 180-181)
RenderDone4(qr) ==
    /\ qr \in rendering
    /\ rendering' = rendering \ {qr}
    /\ currentQR' = toDataURL(qr)
    /\ last' = NoOp
    /\ UNCHANGED <<isConnected, isInitializing, initError, connectionInfo,
                   reconnectAttempts, progVars, listening, sockets, timers,
                   starting, authState, track, wwebVars, fetching, newest, streak, run>>

\* QRCode.toDataURL rejects: logged, swallowed (part_002 182-184)
RenderFail4(qr) ==
    /\ qr \in rendering
    /\ rendering' = rendering \ {qr}
    /\ last' = NoOp
    /\ UNCHANGED <<progVars, prog4Vars, listening, sockets, timers, starting,
                   authState, track, wwebVars, fetching, newest, streak, run>>

\* connection.update with connection 'open' (part_002 222-234)
OnOpen4(s) ==
    /\ s.phase = "connecting" /\ s.me
    /\ sockets' = Upd(sockets, s, [s EXCEPT !.phase = "open"])
    /\ LET p == openBranch4(Prog4, sock)
       IN  /\ Store4(p)
           /\ last' = [NoOp EXCEPT !.op = "open", !.before = reconnectAttempts]
    /\ streak' = 0 /\ run' = 0
    /\ UNCHANGED <<progVars, listening, starting, rendering, track, wwebVars, fetching, newest>>
Open4 == \E s \in BagToSet(sockets) : OnOpen4(s)

\* connection.update with connection 'close' (part_002 187-221)
OnClose4(s, statusCode) ==
    /\ Live(s)
    /\ sockets' = Ended(sockets, s)
    /\ LET p == closeBranch4(Prog4, statusCode)
       IN  /\ Store4(p)
           /\ last' = Did4("close", statusCode, TRUE, FALSE, p)
           /\ streak' = AfterClose(streak, statusCode, p)
           /\ run' = AfterClose(run, statusCode, p)
    /\ UNCHANGED <<progVars, listening, starting, rendering, track, wwebVars, fetching, newest>>
    /\ Bounded
Close4 == \E s \in BagToSet(sockets), c \in StatusCodes : OnClose4(s, c)

\* POST /disconnect with sock === null (part_002 308-314)
DisconnectNoSock4 ==
    /\ listening /\ sock = NoSock
    /\ LET p == disconnectTail4(Prog4)
       IN  Store4(p) /\ last' = Did4("disconnect", NULL, TRUE, FALSE, p)
    /\ UNCHANGED <<progVars, listening, sockets, starting, rendering, track, wwebVars, fetching, newest,
                   streak, run>>

\* sock.logout() resolves; then part_002 311-314
OnLogoutOk4(s, wasLive) ==
    /\ wasLive \in s.lo
    /\ sockets' = Upd(sockets, s, [s EXCEPT !.lo = @ \ {wasLive},
                                            !.phase = IF Live(s) THEN "closed" ELSE @])
    /\ LET p0 == IF Live(s) THEN closeBranch4(Prog4, "loggedOut") ELSE Prog4
           p == disconnectTail4(p0)
       IN  /\ Store4(p)
           /\ last' = Did4("disconnect", NULL, TRUE, wasLive, p)
    /\ streak' = IF Live(s) THEN 0 ELSE streak
    /\ run' = IF Live(s) THEN 0 ELSE run
    /\ UNCHANGED <<progVars, listening, starting, rendering, track, wwebVars, fetching, newest>>
    /\ Bounded
DisconnectOk4 == \E s \in BagToSet(sockets), l \in BOOLEAN : OnLogoutOk4(s, l)

\* POST /reset (part_002 320-328)
Reset4 ==
    /\ listening
    /\ LET p == resetBody(Prog4)
       IN  /\ Store4(p)
           /\ last' = [NoOp EXCEPT !.op = "reset", !.before = reconnectAttempts]
    /\ run' = 0
    /\ UNCHANGED <<progVars, listening, sockets, starting, rendering, track, wwebVars, fetching, newest, streak>>
    /\ Bounded

\* GET /chats up to await sock.groupFetchAllParticipating() (part_002
\* 288-292): the 503 body is {error: 'Not connected'}, nothing else
GetChats4 ==
    /\ listening
    /\ IF isConnected /\ sock # NoSock
       THEN /\ fetching' = fetching + 1
            /\ last' = [Reply("chats", NULL) EXCEPT !.called = TRUE]
       ELSE /\ fetching' = fetching
            /\ last' = [Reply("chats", "503") EXCEPT !.ok = FALSE]
    /\ UNCHANGED <<progVars, prog4Vars, envVars, track, wwebVars, newest, streak, run>>
    /\ Bounded

\* ================================================ server.js, second file
\* The Baileys variant in src/server.js (lines 256-403): no retry budget,
\* no purge, no try/catch around the start. It shares the names currentQR,
\* isConnected, isInitializing and connectionInfo with server (4).js.

\* connection.update, connection === 'close' (server.js 307-319)
closeBranch2(p, statusCode) ==
    LET shouldReconnect == statusCode # "loggedOut"
        p1 == [p EXCEPT !.isConnected = FALSE, !.currentQR = NULL]
    IN  IF shouldReconnect THEN setTimeout4(p1, "plain", 3000) ELSE p1

\* connection.update, connection === 'open' (server.js 320-331)
openBranch2(p, s) ==
    [p EXCEPT !.isConnected = TRUE, !.isInitializing = FALSE,
              !.currentQR = NULL, !.connectionInfo = UserOf(s)]

\* connectToWhatsApp() at module load (server.js 279-283, 335-336)
Boot2 ==
    /\ ~listening
    /\ listening' = TRUE
    /\ isInitializing' = TRUE
    /\ starting' = starting (+) One(Suspended(FALSE))
    /\ last' = NoOp
    /\ UNCHANGED <<currentQR, isConnected, initError, connectionInfo,
                   reconnectAttempts, progVars, sockets, timers, rendering,
                   authState, fetching, track, wwebVars, newest, streak, run>>
    /\ Bounded

\* setTimeout(connectToWhatsApp, 3000) fires (server.js 279-283, 317)
TimerFire2 ==
    /\ BagIn("plain", timers)
    /\ timers' = timers (-) One("plain")
    /\ isInitializing' = TRUE
    /\ starting' = starting (+) One(Suspended(FALSE))
    /\ last' = NoOp
    /\ UNCHANGED <<currentQR, isConnected, initError, connectionInfo,
                   reconnectAttempts, progVars, listening, sockets, rendering,
                   authState, fetching, track, wwebVars, newest, streak, run>>

\* useMultiFileAuthState resolves; sock = makeWASocket(...); the handlers
\* are registered (server.js 283-293)
Start2(st) ==
    /\ BagIn(st, starting) /\ st.stage = "load"
    /\ starting' = starting (-) One(st)
    /\ sockets' = makeWASocket(sockets, authState = "paired", FALSE)
    /\ last' = NoOp
    /\ UNCHANGED <<progVars, prog4Vars, listening, timers, rendering, authState,
                   fetching, track, wwebVars, newest, streak, run>>
    /\ Bounded

\* connection.update with qr, up to the await (server.js 296-300)
OnQr2(s, qr) ==
    /\ s.phase = "connecting" /\ ~s.me
    /\ qr \notin rendering
    /\ isInitializing' = FALSE
    /\ rendering' = rendering \cup {qr}
    /\ last' = NoOp
    /\ UNCHANGED <<currentQR, isConnected, initError, connectionInfo,
                   reconnectAttempts, progVars, listening, sockets, timers,
                   starting, authState, fetching, track, wwebVars, newest, streak, run>>
    /\ Bounded
Qr2 == \E s \in BagToSet(sockets), qr \in Codes : OnQr2(s, qr)

\* connection.update with connection 'open' (server.js 320-331)
OnOpen2(s) ==
    /\ s.phase = "connecting" /\ s.me
    /\ sockets' = Upd(sockets, s, [s EXCEPT !.phase = "open"])
    /\ Store4(openBranch2(Prog4, sock))
    /\ last' = [Did("open", NULL, TRUE, FALSE, 0) EXCEPT !.cur = s.cur,
                                                        !.user = UserOf(s)]
    /\ UNCHANGED <<progVars, listening, starting, rendering, fetching, track, wwebVars,
                   newest, streak, run>>
Open2 == \E s \in BagToSet(sockets) : OnOpen2(s)

\* connection.update with connection 'close' (server.js 307-319)
OnClose2(s, statusCode) ==
    /\ Live(s)
    /\ sockets' = Ended(sockets, s)
    /\ LET p == closeBranch2(Prog4, statusCode)
       IN  /\ Store4(p)
           /\ last' = Did("close", statusCode, TRUE, FALSE, p.sched)
    /\ UNCHANGED <<progVars, listening, starting, rendering, fetching, track, wwebVars,
                   newest, streak, run>>
    /\ Bounded
Close2 == \E s \in BagToSet(sockets), c \in IndexCodes : OnClose2(s, c)

\* POST /disconnect after the logout (server.js 388-390)
disconnectTail2(p) == [p EXCEPT !.isConnected = FALSE, !.currentQR = NULL]

\* POST /disconnect with sock === null (server.js 385-391)
DisconnectNoSock2 ==
    /\ listening /\ sock = NoSock
    /\ Store4(disconnectTail2(Prog4))
    /\ last' = Did("disconnect", NULL, TRUE, FALSE, 0)
    /\ UNCHANGED <<progVars, listening, sockets, starting, rendering, fetching,
                   track, wwebVars, newest, streak, run>>

\* sock.logout() resolves; then server.js 388-390
OnLogoutOk2(s, wasLive) ==
    /\ wasLive \in s.lo
    /\ sockets' = Upd(sockets, s, [s EXCEPT !.lo = @ \ {wasLive},
                                            !.phase = IF Live(s) THEN "closed" ELSE @])
    /\ LET p0 == IF Live(s) THEN closeBranch2(Prog4, "loggedOut") ELSE Prog4
       IN  Store4(disconnectTail2(p0))
    /\ last' = Did("disconnect", NULL, TRUE, wasLive, 0)
    /\ UNCHANGED <<progVars, listening, starting, rendering, fetching, track, wwebVars,
                   newest, streak, run>>
DisconnectOk2 == \E s \in BagToSet(sockets), l \in BOOLEAN : OnLogoutOk2(s, l)

\* GET /status (server.js 339-347): info is connectionInfo as stored
GetStatus2 ==
    /\ listening
    /\ last' = [Reply("status", "200") EXCEPT
                    !.connected = isConnected,
                    !.hasQR = ~isConnected /\ currentQR # NULL,
                    !.user = connectionInfo]
    /\ UNCHANGED <<progVars, prog4Vars, envVars, fetching, track, wwebVars, newest,
                   streak, run>>

\* ============================================== part_000, earlier index.js
\* The earlier revision of index.js kept in src/unnamed/part_000. It differs
\* from index.js in the close branch (part_000 99-126), in POST /restart
\* (232-241, userInfo is kept) and in the initial status (37); connectWhatsApp,
\* the qr and open branches, /disconnect and the reads are as in index.js.

\* connection.update, connection === 'close' (part_000 99-126)
closeBranch0(p, statusCode) ==
    LET p1 == [p EXCEPT !.connectionStatus = "disconnected",
                        !.qrCode = NULL, !.userInfo = NoInfo]
    IN  CASE statusCode = "loggedOut" ->
                setTimeout([p1 EXCEPT !.authState = "none"], "close")
          [] statusCode = "restartRequired" -> setTimeout(p1, "close")
          [] statusCode \notin {"loggedOut", "restartRequired", "connectionClosed"} ->
                setTimeout(p1, "close")
          [] OTHER -> p1

\* POST /restart after sock.end() (part_000 237-239)
restartTail0(p) ==
    setTimeout([p EXCEPT !.connectionStatus = "disconnected", !.qrCode = NULL],
               "restart")

\* connection.update with connection 'close' (part_000 99-126)
OnClose0(s, statusCode) ==
    /\ Live(s)
    /\ sockets' = Ended(sockets, s)
    /\ LET p == closeBranch0(Prog, statusCode)
       IN  /\ Store(p)
           /\ last' = Did("close", statusCode, TRUE, FALSE, p.sched)
    /\ UNCHANGED <<prog4Vars, listening, starting, rendering, track, wwebVars, fetching, newest, streak, run>>
    /\ Bounded
Close0 == \E s \in BagToSet(sockets), c \in StatusCodes : OnClose0(s, c)

\* sock.logout() resolves; then part_000 222-225
OnLogoutOk0(s, wasLive) ==
    /\ wasLive \in s.lo
    /\ sockets' = Upd(sockets, s, [s EXCEPT !.lo = @ \ {wasLive},
                                            !.phase = IF Live(s) THEN "closed" ELSE @])
    /\ LET p0 == IF Live(s) THEN closeBranch0(Prog, "loggedOut") ELSE Prog
           p == disconnectTail(p0)
       IN  /\ Store(p)
           /\ last' = Did("disconnect", NULL, TRUE, wasLive, p.sched)
    /\ UNCHANGED <<prog4Vars, listening, starting, rendering, track, wwebVars, fetching, newest, streak, run>>
    /\ Bounded
DisconnectOk0 == \E s \in BagToSet(sockets), l \in BOOLEAN : OnLogoutOk0(s, l)

\* POST /restart (part_000 232-241)
Restart0 ==
    /\ listening
    /\ LET ends == sock # NoSock /\ Live(sock)
           p0 == IF ends THEN closeBranch0(Prog, "undefined") ELSE Prog
           p == restartTail0(p0)
       IN  /\ sockets' = IF ends THEN Ended(sockets, sock) ELSE sockets
           /\ Store(p)
           /\ last' = Did("restart", NULL, TRUE, ends, p.sched)
    /\ UNCHANGED <<prog4Vars, listening, starting, rendering, track, wwebVars, fetching, newest, streak, run>>
    /\ Bounded

\* ============================================ server.js, whatsapp-web.js
\* The whatsapp-web.js server in src/server.js (lines 1-254). It keeps
\* currentQR, isConnected and clientInfo, and one Client object made at
\* module load. The Client is the library's: it emits qr, authenticated,
\* auth_failure, ready and disconnected, and starts a session only when
\* initialize() is called.

\* what the whatsapp-web.js server leaves alone
restW ==
    <<progVars, isInitializing, initError, connectionInfo, reconnectAttempts,
      sockets, timers, starting, track, newest, streak, run>>

\* client.info of a ready client (server.js 70)
InfoW == [pushname |-> "Alice", phone |-> "1"]

\* module load: client.initialize() and app.listen (server.js 84-88, 230)
BootW ==
    /\ ~listening
    /\ listening' = TRUE
    /\ client' = "initializing"
    /\ last' = NoOp
    /\ UNCHANGED <<restW, currentQR, isConnected, clientInfo, rendering,
                   authState, fetching>>

\* client.initialize() rejects: logged (server.js 86-88)
InitializeFailW ==
    /\ client = "initializing"
    /\ client' = "failed"
    /\ last' = NoOp
    /\ UNCHANGED <<restW, currentQR, isConnected, clientInfo, rendering,
                   authState, listening, fetching>>

\* 'qr' up to await QRCode.toDataURL (server.js 43-47)
OnQrW(qr) ==
    /\ client \in {"initializing", "pairing"}
    /\ qr \notin rendering
    /\ rendering' = rendering \cup {qr}
    /\ client' = "pairing"
    /\ last' = NoOp
    /\ UNCHANGED <<restW, currentQR, isConnected, clientInfo, authState,
                   listening, fetching>>

\* QRCode.toDataURL resolves (server.js 47-48)
RenderDoneW(qr) ==
    /\ qr \in rendering
    /\ rendering' = rendering \ {qr}
    /\ currentQR' = toDataURL(qr)
    /\ last' = NoOp
    /\ UNCHANGED <<restW, isConnected, clientInfo, client, authState,
                   listening, fetching>>

\* QRCode.toDataURL rejects: the raw string is published (server.js 49-52)
RenderFailW(qr) ==
    /\ qr \in rendering
    /\ rendering' = rendering \ {qr}
    /\ currentQR' = qr
    /\ last' = NoOp
    /\ UNCHANGED <<restW, isConnected, clientInfo, client, authState,
                   listening, fetching>>

\* 'authenticated' (server.js 55-58): after a scan, or from a stored session
OnAuthenticatedW ==
    /\ \/ client = "pairing"
       \/ client = "initializing" /\ authState = "paired"
    /\ currentQR' = NULL
    /\ authState' = "paired"
    /\ client' = "authenticated"
    /\ last' = NoOp
    /\ UNCHANGED <<restW, isConnected, clientInfo, rendering, listening,
                   fetching>>

\* 'auth_failure' (server.js 60-64): the stored session is refused
OnAuthFailureW ==
    /\ client = "initializing" /\ authState = "paired"
    /\ isConnected' = FALSE
    /\ currentQR' = NULL
    /\ client' = "failed"
    /\ last' = [NoOp EXCEPT !.op = "auth_failure"]
    /\ UNCHANGED <<restW, clientInfo, rendering, authState, listening,
                   fetching>>

\* 'ready' (server.js 66-72)
OnReadyW ==
    /\ client = "authenticated"
    /\ isConnected' = TRUE
    /\ currentQR' = NULL
    /\ clientInfo' = InfoW
    /\ client' = "ready"
    /\ last' = NoOp
    /\ UNCHANGED <<restW, rendering, authState, listening, fetching>>

\* 'disconnected' (server.js 74-78): nothing is started again
OnDisconnectedW ==
    /\ client = "ready"
    /\ isConnected' = FALSE
    /\ clientInfo' = NoInfo
    /\ client' = "disconnected"
    /\ last' = [NoOp EXCEPT !.op = "disconnected"]
    /\ UNCHANGED <<restW, currentQR, rendering, authState, listening, fetching>>

\* GET /status (server.js 93-104)
GetStatusW ==
    /\ listening
    /\ last' = [Reply("status", "200") EXCEPT
                    !.connected = isConnected,
                    !.hasQR = ~isConnected /\ currentQR # NULL,
                    !.user = IF isConnected THEN clientInfo ELSE NoInfo]
    /\ UNCHANGED <<restW, currentQR, isConnected, wwebVars, rendering,
                   authState, listening, fetching>>

\* GET /qr (server.js 107-123)
GetQrW ==
    /\ listening
    /\ last' = IF isConnected
               THEN [Reply("qr", "200") EXCEPT !.connected = TRUE]
               ELSE IF currentQR = NULL
               THEN [Reply("qr", "503") EXCEPT !.ok = FALSE]
               ELSE [Reply("qr", "200") EXCEPT !.qr = currentQR]
    /\ UNCHANGED <<restW, currentQR, isConnected, wwebVars, rendering,
                   authState, listening, fetching>>

\* GET /health (server.js 225-227)
GetHealthW ==
    /\ listening
    /\ last' = [Reply("health", "200") EXCEPT !.status = "ok",
                                               !.connected = isConnected]
    /\ UNCHANGED <<restW, currentQR, isConnected, wwebVars, rendering,
                   authState, listening, fetching>>

\* GET /chats up to await client.getChats() (server.js 126-136)
GetChatsW ==
    /\ listening
    /\ IF isConnected
       THEN /\ fetching' = fetching + 1
            /\ last' = [Reply("chats", NULL) EXCEPT !.called = TRUE]
       ELSE /\ fetching' = fetching
            /\ last' = [Reply("chats", "503") EXCEPT !.ok = FALSE]
    /\ UNCHANGED <<restW, currentQR, isConnected, wwebVars, rendering,
                   authState, listening>>
    /\ Bounded

\* POST /disconnect, client.logout() resolves (server.js 215-218): the
\* session ends; whether the library also emits 'disconnected' is its choice
LogoutOkW(emits) ==
    /\ listening /\ client = "ready"
    /\ client' = "disconnected"
    /\ authState' = "none"
    /\ isConnected' = IF emits THEN FALSE ELSE isConnected
    /\ clientInfo' = IF emits THEN NoInfo ELSE clientInfo
    /\ last' = Did("disconnect", NULL, TRUE, TRUE, 0)
    /\ UNCHANGED <<restW, currentQR, rendering, listening, fetching>>

\* POST /disconnect, client.logout() rejects (server.js 219-221)
LogoutThrowW ==
    /\ listening
    /\ last' = [Did("disconnect", NULL, FALSE, client = "ready", 0)
                    EXCEPT !.http = "500"]
    /\ UNCHANGED <<restW, currentQR, isConnected, wwebVars, rendering,
                   authState, listening, fetching>>

InitCommon ==
    /\ qrCode = NULL /\ userInfo = NoInfo
    /\ currentQR = NULL /\ isConnected = FALSE /\ isInitializing = TRUE
    /\ initError = NULL /\ connectionInfo = NoInfo /\ reconnectAttempts = 0
    /\ clientInfo = NoInfo /\ client = "new"
    /\ listening = FALSE
    /\ sockets = EmptyBag /\ timers = EmptyBag /\ starting = EmptyBag
    /\ rendering = {}
    /\ authState \in {"none", "paired"}
    /\ fetching = 0
    /\ newest = [qr |-> NULL, shown |-> FALSE]
    /\ last = NoOp /\ streak = 0 /\ run = 0

\* index.js 28-31
Init == InitCommon /\ connectionStatus = "initializing" /\ track = FALSE
InitR == InitCommon /\ connectionStatus = "initializing" /\ track = TRUE

Next ==
    \/ Boot
    \/ \E k \in TimerKinds : TimerFire(k)
    \/ \E st \in StartKinds : StartLoaded(st)
    \/ \E st \in StartKinds : StartFinish(st)
    \/ \E st \in StartKinds : StartFail(st)
    \/ Qr
    \/ \E qr \in Codes : RenderDone(qr)
    \/ \E qr \in Codes : RenderFail(qr)
    \/ Open
    \/ Close
    \/ CredsUpdate
    \/ DisconnectNoSock
    \/ DisconnectBegin
    \/ DisconnectOk
    \/ DisconnectThrow
    \/ Restart

\* part_002 124-130
Init4 == InitCommon /\ connectionStatus = NULL /\ track = FALSE

Next4 ==
    \/ Boot4
    \/ \E k \in {"plain", "fresh"} : TimerFire4(k)
    \/ \E st \in StartKinds : Start4(st)
    \/ \E st \in StartKinds : StartFail4(st)
    \/ Qr4
    \/ \E qr \in Codes : RenderDone4(qr)
    \/ \E qr \in Codes : RenderFail4(qr)
    \/ Open4
    \/ Close4
    \/ CredsUpdate
    \/ DisconnectNoSock4
    \/ DisconnectBegin
    \/ DisconnectOk4
    \/ DisconnectThrow
    \/ Reset4

\* index.js with its read endpoints
NextH ==
    \/ Next
    \/ GetHealth
    \/ GetStatus
    \/ GetQr
    \/ GetChats
    \/ ChatsOk
    \/ ChatsThrow

\* server (4).js with its GET /chats
Next4H ==
    \/ Next4
    \/ GetChats4
    \/ ChatsOk
    \/ ChatsThrow

\* server.js 272-277
Init2 == Init4

Next2 ==
    \/ Boot2
    \/ TimerFire2
    \/ \E st \in StartKinds : Start2(st)
    \/ Qr2
    \/ \E qr \in Codes : RenderDone4(qr)
    \/ \E qr \in Codes : RenderFail4(qr)
    \/ Open2
    \/ Close2
    \/ CredsUpdate
    \/ DisconnectNoSock2
    \/ DisconnectBegin
    \/ DisconnectOk2
    \/ DisconnectThrow
    \/ GetStatus2

\* part_000 35-38
Init0 == InitCommon /\ connectionStatus = "disconnected" /\ track = FALSE

Next0 ==
    \/ Boot
    \/ \E k \in TimerKinds : TimerFire(k)
    \/ \E st \in StartKinds : StartLoaded(st)
    \/ \E st \in StartKinds : StartFinish(st)
    \/ \E st \in StartKinds : StartFail(st)
    \/ Qr
    \/ \E qr \in Codes : RenderDone(qr)
    \/ \E qr \in Codes : RenderFail(qr)
    \/ Open
    \/ Close0
    \/ CredsUpdate
    \/ DisconnectNoSock
    \/ DisconnectBegin
    \/ DisconnectOk0
    \/ DisconnectThrow
    \/ Restart0

\* server.js 19-21
InitW == Init4

NextW ==
    \/ BootW
    \/ InitializeFailW
    \/ \E qr \in Codes : OnQrW(qr)
    \/ \E qr \in Codes : RenderDoneW(qr)
    \/ \E qr \in Codes : RenderFailW(qr)
    \/ OnAuthenticatedW
    \/ OnAuthFailureW
    \/ OnReadyW
    \/ OnDisconnectedW
    \/ GetStatusW
    \/ GetQrW
    \/ GetHealthW
    \/ GetChatsW
    \/ ChatsOk
    \/ ChatsThrow
    \/ \E e \in BOOLEAN : LogoutOkW(e)
    \/ LogoutThrowW

Spec == Init /\ [][Next]_vars
Spec0 == Init0 /\ [][Next0]_vars
\* the event loop handles every event and request that is waiting
SpecW == InitW /\ [][NextW]_vars /\ WF_vars(NextW)
\* the event loop runs every timer callback that is due
SpecL == Init /\ [][Next]_vars /\ \A k \in TimerKinds : WF_vars(TimerFire(k))
SpecH == Init /\ [][NextH]_vars
SpecR == InitR /\ [][Next]_vars
Spec4 == Init4 /\ [][Next4]_vars
Spec4H == Init4 /\ [][Next4H]_vars
Spec2 == Init2 /\ [][Next2]_vars

\* ============================================================== claims
\* C1 (src/index.js): a pairing artifact is stored if and only if the
\* connection is awaiting pairing: qrCode is non-null exactly when
\* connectionStatus is 'waiting_for_scan'.
C1_ArtifactIffAwaitingPairing ==
    (qrCode # NULL) <=> (connectionStatus = "waiting_for_scan")

\* C2 (src/index.js): account info is stored if and only if the connection
\* is connected: userInfo is non-null exactly when connectionStatus is
\* 'connected'.
C2_InfoIffConnected ==
    (userInfo # NoInfo) <=> (connectionStatus = "connected")

\* C3 (src/index.js): at most one network session is active at any time.
C3_AtMostOneActiveSession == NumLive <= 1

\* C4 (src/index.js): at most one start timer is pending at any time.
C4_AtMostOnePendingTimer == BagCardinality(timers) <= 1

\* C5 (src/index.js): restart requests in quick succession leave exactly one
\* session: the sessions that starts scheduled by /restart created and that
\* are active at once number at most one.
C5_RestartsLeaveOneSession ==
    LET byRestart == {s \in BagToSet(sockets) : Live(s) /\ s.byRestart}
    IN  BagCardinality(Restrict(sockets, byRestart)) <= 1

\* C6 (src/index.js): when a session closes with loggedOut, the credential
\* store is purged and a start is scheduled.
C6_LoggedOutPurgesAndSchedules ==
    (last.op = "close" /\ last.code = "loggedOut")
        => (authState = "none" /\ last.sched = 1)

C8_DisconnectWhenIdleIsNoop ==
    [][(last'.op = "disconnect" /\ ~last'.live /\ NumLive = 0)
        => /\ last'.ok
           /\ authState' = authState /\ timers' = timers
           /\ connectionStatus' \in {connectionStatus, "disconnected"}
           /\ qrCode' \in {qrCode, NULL}
           /\ userInfo' \in {userInfo, NoInfo}]_vars

\* C9 (src/index.js): POST /disconnect always answers {success: true}.
C9_DisconnectAlwaysSucceeds == (last.op = "disconnect") => last.ok

\* C10 (src/index.js): POST /disconnect on an active session leaves the
\* logged-out state (status 'disconnected', no artifact, no account info)
\* whether the logout itself succeeded or failed.
C10_DisconnectLeavesLoggedOut ==
    (last.op = "disconnect" /\ last.live)
        => /\ connectionStatus = "disconnected"
           /\ qrCode = NULL
           /\ userInfo = NoInfo

\* C11 (src/index.js): after an operator disconnect on an active session
\* has completed, the stored credentials have been purged.
C11_DisconnectPurgesCredentials ==
    (last.op = "disconnect" /\ last.live) => authState = "none"

\* C13 (src/index.js): once the artifact of the pairing code emitted last
\* has been published, no artifact of an earlier code is stored any more,
\* whatever order the renderings complete in.
C13_SupersededArtifactNeverSeen ==
    (newest.shown /\ qrCode # NULL) => qrCode = toDataURL(newest.qr)

\* C15 (src/index.js): GET /health, GET /status and GET /qr always answer
\* without an error and leave status, artifact, info, retry counter,
\* credentials, sockets, timers and suspended starts unchanged.
C15_ReadsChangeNothing ==
    [][last'.op \in {"health", "status", "qr"}
        => /\ last'.ok /\ last'.http \in {"200", "202"}
           /\ UNCHANGED <<progVars, prog4Vars, envVars, fetching>>]_vars

\* a read answered while a start timer is pending and a start is suspended
C15_Witness ==
    /\ last.op \in {"health", "status", "qr"}
    /\ timers # EmptyBag /\ starting # EmptyBag

\* C16 (src/index.js): GET /qr answers connected with a null artifact when
\* connected; the artifact with the current state when one is stored and
\* the state is not connected; and otherwise "not ready" with the current
\* state, never an error.
C16_QrReplyCarriesState ==
    last.op = "qr" =>
        /\ last.http # "500"
        /\ IF connectionStatus = "connected"
           THEN last.status = "connected" /\ last.qr = NULL
           ELSE IF qrCode # NULL
           THEN last.qr = qrCode /\ last.status = connectionStatus
           ELSE last.http = "202" /\ last.qr = NULL
                /\ last.status = connectionStatus

\* C17 (src/index.js): POST /restart is answered {success: true} and has
\* scheduled a start in every state, and every restart is eventually
\* followed by a run of connectWhatsApp from a restart timer.
C17_RestartLeadsToStart ==
    /\ [](last.op = "restart" => last.ok /\ last.sched >= 1
                                 /\ BagIn("restart", timers))
    /\ (last.op = "restart") ~> (last.op = "start" /\ last.code = "restart")

\* the start a restart scheduled has run
C17_Witness ==
    /\ last.op = "start" /\ last.code = "restart"
    /\ connectionStatus = "connecting"

\* C18 (server (4).js): the operator's reset/restart request does not purge
\* the stored credentials.
C18_RestartKeepsCredentials ==
    [][Reset4 => authState' = authState]_vars

\* C19 (server (4).js): the stored credentials are deleted only by a
\* closure handled as unrecoverable (loggedOut, badSession, spent budget)
\* or by an operator request; never by boot, a start or a failed start.
C19_PurgeOnlyWhenUnrecoverable ==
    [][(authState = "paired" /\ authState' = "none")
        => \/ last'.op = "close" /\ last'.purged
           \/ last'.op = "disconnect"
           \/ Reset4]_vars

\* C20 (src/index.js): the status is never 'connected' with a null
\* userInfo, and no GET /status reports connected with a null user.
C20_ConnectedHasInfo ==
    /\ connectionStatus = "connected" => userInfo # NoInfo
    /\ (last.op = "status" /\ last.connected) => last.user # NoInfo

\* a status read answered on a connected bridge
C20_Witness ==
    /\ last.op = "status" /\ last.connected
    /\ last.user = [name |-> "Alice", id |-> "1"]

\* C12 (server (4).js): GET /chats while not connected answers at once with
\* a "not connected" error that carries the current state, and makes no
\* call into the socket.
C12_ChatsRefusedWithState ==
    (last.op = "chats" /\ ~isConnected)
        => /\ last.http = "503" /\ ~last.called
           /\ last.status # NULL

\* C14 (server.js, second file): a status read right after the open event
\* of the current session reports connected with the identity's name and
\* id; a status read right after a loggedOut closure reports not connected
\* with a null info, and the credentials have been cleared.
C14_StatusAfterOpenAndLogout ==
    [][last'.op = "status"
        => /\ (last.op = "open" /\ last.cur)
                => (last'.connected /\ last'.user = last.user)
           /\ (last.op = "close" /\ last.code = "loggedOut")
                => (~last'.connected /\ last'.user = NoInfo
                    /\ authState = "none")]_vars

\* C21 (src/index.js): every failure response (503 and 500 of GET /chats,
\* 500 of POST /disconnect, 202 "not ready" of GET /qr) carries the current
\* connection state.
C21_FailuresCarryState ==
    last.http \in {"202", "500", "503"} => last.status = connectionStatus

\* C23 (src/index.js): a pairing-ready event handled while the status is
\* 'connected' is ignored: the status stays 'connected', the info is kept
\* and no artifact is stored or rendered.
C23_LatePairingReadyIgnored ==
    [][(connectionStatus = "connected" /\ Qr)
        => /\ connectionStatus' = "connected"
           /\ userInfo' = userInfo
           /\ qrCode' = qrCode /\ rendering' = rendering]_vars

\* C24 (src/index.js): a closed, opened or pairing-ready event emitted by a
\* socket that sock no longer refers to changes neither status, artifact,
\* info nor credentials, and schedules no start.
C24_SupersededEventsDropped ==
    [][(\E s \in BagToSet(sockets) :
            /\ ~s.cur
            /\ \/ OnOpen(s)
               \/ \E c \in IndexCodes : OnClose(s, c)
               \/ \E qr \in Codes : OnQr(s, qr))
        => UNCHANGED <<progVars, timers, authState, rendering>>]_vars

\* C25 (src/index.js): a POST /restart that ends an active session
\* schedules exactly one start and leaves exactly one timer pending:
\* neither the closure of the socket it ended nor an earlier timer adds one.
C25_RestartLeavesOneTimer ==
    (last.op = "restart" /\ last.live)
        => (last.sched = 1 /\ BagCardinality(timers) = 1)

\* C28 (src/index.js): a closure with badSession is handled like one with
\* loggedOut: the credentials are purged and the same start is scheduled.
C28_BadSessionLikeLoggedOut ==
    [][(\E s \in BagToSet(sockets) : OnClose(s, "badSession"))
        => /\ authState' = "none"
           /\ Store(closeBranch(Prog, "loggedOut"))]_vars

\* C27 (part_002 204-221): a closure with an unclassifiable cause is handled
\* exactly like a Transient one: the handler's effect on the state, the
\* counter and the timers is that of the close branch for connectionLost,
\* and the delay is the backoff of the incremented counter.
C27_UnknownLikeTransient ==
    [][(\E s \in BagToSet(sockets) : OnClose4(s, "other"))
        => /\ Store4(closeBranch4(Prog4, "connectionLost"))
           /\ last'.ms = closeBranch4(Prog4, "connectionLost").ms]_vars

\* C29 (part_002 204-212): a Transient closure within the budget adds one
\* to the counter and schedules exactly one plain start after
\* backoff(counter); backoff never decreases as the counter grows.
C29_TransientBackoff ==
    /\ (/\ last.op = "close" /\ last.code \in Transient
        /\ last.before + 1 <= MAX_RECONNECT_ATTEMPTS)
       => /\ reconnectAttempts = last.before + 1
          /\ last.sched = 1 /\ last.kind = "plain" /\ ~last.purged
          /\ last.ms = backoff(reconnectAttempts)
    /\ \A i, j \in 0..(MAX_RECONNECT_ATTEMPTS + 1) :
          i <= j => backoff(i) <= backoff(j)
\* a second Transient closure in a row, retried after a longer delay
C29_Witness ==
    /\ last.op = "close" /\ last.code = "timedOut"
    /\ last.before = 1 /\ reconnectAttempts = 2
    /\ last.ms = 6000 /\ BagIn("plain", timers)

\* C30 (part_002 175-185, 222-234, 320-328): the counter is 0 right after
\* every qr event, every open event and every POST /reset.
C30_CounterResets ==
    [][(Qr4 \/ Open4 \/ Reset4) => reconnectAttempts' = 0]_vars
\* a socket opens after retries had been counted
C30_Witness ==
    last.op = "open" /\ last.before > 0 /\ reconnectAttempts = 0
C30_WitnessQr ==
    last.op = "qr" /\ last.before > 0 /\ reconnectAttempts = 0
C30_WitnessReset ==
    last.op = "reset" /\ last.before > 0 /\ reconnectAttempts = 0

\* C26 (part_000 99-126): every closure whose cause is neither LoggedOut nor
\* BadSession schedules a reconnect, so after it a start is pending.
C26_RetryableCloseReconnects ==
    (last.op = "close" /\ last.code \notin {"loggedOut", "badSession"})
        => (last.sched >= 1 /\ BagCardinality(timers) >= 1)

\* C22 (src/server.js 74-78, 93-123): in the whatsapp-web.js server, a
\* request served after the connection dropped is eventually followed by a
\* new connection attempt (the client initializing again).
C22_RequestReconnects ==
    (/\ client = "disconnected" /\ ~isConnected
     /\ last.op \in {"status", "qr", "health", "chats"})
        ~> (client = "initializing")

\* C31 (part_002 142-150, 204-221): the retry counter grows only in the
\* handling of a retryable closure and is set back only by an opened or
\* pairing-ready event, a closure or POST /reset; a start, a failed start,
\* a credentials update or a read leaves it as it is.
C31_CounterFrame ==
    [][/\ reconnectAttempts' > reconnectAttempts
            => \E s \in BagToSet(sockets), c \in Transient : OnClose4(s, c)
       /\ reconnectAttempts' < reconnectAttempts
            => (Qr4 \/ Open4 \/ Reset4 \/ Close4)]_vars

\* C32 (src/index.js 121-122): a creds.update event stores the credentials
\* and leaves the connection status, the pairing code, the user info, the
\* retry counter and everything pending unchanged.
C32_CredsUpdateFrame ==
    [][CredsUpdate
        => /\ authState' = "paired"
           /\ UNCHANGED <<progVars, prog4Vars, timers, starting, rendering>>]_vars
\* credentials arrive while a pairing code is on show, and it stays on show
C32_Witness ==
    /\ last.op = "creds" /\ authState = "paired"
    /\ connectionStatus = "waiting_for_scan" /\ qrCode # NULL

\* C33 (src/index.js 75-83): a failed render of the pairing image is
\* swallowed: it changes no program state, the socket's qr, open and close
\* events can still be handled right after it, and a render that succeeds
\* later publishes its image.
C33_RenderFailureSwallowed ==
    /\ [](last.op = "renderFail" =>
            \A s \in BagToSet(sockets) :
                /\ (s.phase = "connecting" /\ ~s.me) => ENABLED OnQr(s, last.code)
                /\ (s.phase = "connecting" /\ s.me) => ENABLED OnOpen(s)
                /\ Live(s) => ENABLED OnClose(s, "connectionLost"))
    /\ [][/\ \A qr \in Codes : RenderFail(qr) =>
                /\ UNCHANGED <<progVars, sockets, timers, starting, authState>>
                /\ rendering' = rendering \ {qr}
          /\ \A qr \in Codes : RenderDone(qr) => qrCode' = toDataURL(qr)]_vars
\* one render fails and the next one, of another code, publishes its image
C33_Witness ==
    /\ last.op = "render" /\ last.after = "renderFail"
    /\ qrCode = toDataURL(last.code)
    /\ connectionStatus = "waiting_for_scan"

\* C34 (part_002 130-131, 204-217, 320-328): between any two handlers the
\* retry counter lies in 0..MAX_RECONNECT_ATTEMPTS, whatever the order of
\* closures, pairing-ready and opened events, resets and starts, and
\* whichever sockets deliver the closures.
C34_CounterInRange ==
    reconnectAttempts \in 0..MAX_RECONNECT_ATTEMPTS
\* the counter at its upper bound: a Transient closure arrives, finds the
\* budget spent and the handler leaves the counter at 0, not at MAX + 1
C34_Witness ==
    /\ last.op = "close" /\ last.code \in Transient
    /\ last.before = MAX_RECONNECT_ATTEMPTS /\ reconnectAttempts = 0

\* C35 (src/index.js 42-66, 124-128): a start that throws sets the status to
\* 'error' and schedules exactly one retry, and every failed start is
\* eventually followed by a run of connectWhatsApp from such a retry timer.
C35_FailedStartRetried ==
    /\ [](last.op = "startFail" =>
            /\ connectionStatus = "error"
            /\ last.sched = 1 /\ BagIn("catch", timers))
    /\ (last.op = "startFail") ~> (last.op = "start" /\ last.code = "catch")
\* the retry scheduled by a failed start has run
C35_Witness ==
    /\ last.op = "start" /\ last.code = "catch"
    /\ connectionStatus = "connecting" /\ starting # EmptyBag

\* C36 (part_002 134-153, src/index.js 109-140): after a purge no
\* creds.update stores credentials again before the next start has loaded
\* them, so the start that follows a purge loads an empty credential folder.
C36_FreshStartLoadsEmpty ==
    [][/\ CredsUpdate =>
            ~\E st \in BagToSet(starting) : st.forceNew /\ st.stage = "load"
       /\ \A st \in StartKinds :
            (Start4(st) /\ st.forceNew) => authState = "none"]_vars

\* C37 (src/index.js 28, 56-66, 217-244): once a socket has been created
\* sock is never null again, whatever closes, disconnects or restarts; the
\* 'Already disconnected' branch of POST /disconnect runs only while no
\* socket has ever been made, and every other disconnect calls logout() on
\* the handle sock holds.
C37_SockNeverNullAgain ==
    [][/\ sock # NoSock => sock' # NoSock
       /\ DisconnectNoSock => sockets = EmptyBag
       /\ DisconnectBegin => (sock # NoSock /\ sock'.lo # {})]_vars
\* POST /disconnect after the socket closed: logout() is called on the
\* closed handle that sock still holds
C37_Witness ==
    /\ sock # NoSock /\ sock.phase = "closed" /\ FALSE \in sock.lo
    /\ BagCardinality(timers) + BagCardinality(starting) = 0

====
